---------------------------- MODULE Spec2Model ----------------------------
(***************************************************************************)
(* A state-machine model of src/app.py: a script that configures an        *)
(* OpenTelemetry tracer provider, runs two coroutines concurrently under   *)
(* asyncio.gather inside a root span, and shuts the provider down.         *)
(*                                                                         *)
(* The event loop is modelled as asyncio runs it: a FIFO queue of ready    *)
(* tasks; a task runs from one await to the next without interruption;    *)
(* timers and socket I/O put a suspended task back on the queue.  Each     *)
(* task has its own context (contextvars), copied from its creator.        *)
(*                                                                         *)
(* Library semantics assumed (they are not in src/): the module-level      *)
(* proxy tracer resolves the provider when a span is started, not when     *)
(* the decorator is created, and the span decorator on a coroutine         *)
(* function keeps the span open for the whole awaited body.                *)
(***************************************************************************)
EXTENDS Integers, Sequences, FiniteSets, TLC

VARIABLES
    pc,           \* position of the script's __main__ block
    provider,     \* the global tracer provider
    instrumented, \* HTTPXClientInstrumentor().instrument() has run
    task,         \* state of each coroutine: main, wait, fetch
    ready,        \* the event loop's FIFO of tasks ready to run
    ctx,          \* current span of each task's context
    cur,          \* the local variable current_span of wait / fetch
    spans,        \* every span of the run, by name
    queue,        \* ended spans buffered in the BatchSpanProcessor
    exported,     \* spans handed to the exporter
    getCount,     \* number of client.get() calls issued
    resp,         \* what client.get() produced
    pending,      \* exception travelling out of the try body, or "none"
    handled,      \* the except clauses that have run
    log,          \* the log lines emitted, in order
    events        \* span starts / ends and the shutdown, in order

vars == <<pc, provider, instrumented, task, ready, ctx, cur, spans, queue,
          exported, getCount, resp, pending, handled, log, events>>

----------------------------------------------------------------------------
(* Names and literals of the source *)

MainSpan  == "main_application_run"
WaitSpan  == "simulate_half_second_wait"
FetchSpan == "fetch_jsonplaceholder_post"
HttpSpan  == "GET"
SpanNames == {MainSpan, WaitSpan, FetchSpan, HttpSpan}
INVALID   == "INVALID_SPAN"

Url == "https://jsonplaceholder.typicode.com/posts/1"
WaitDurationMs == 500
AppStatus == "completed_parallel_tasks"

Tasks == {"main", "wait", "fetch"}

LogConfigured   == <<"INFO", "OpenTelemetry configured successfully for Google Cloud Trace.">>
LogAppStart     == <<"INFO", "Application starting...">>
LogParallel     == <<"INFO", "Running wait_half_second and call_demo_endpoint in parallel...">>
LogWaitStart    == <<"INFO", "Starting wait_half_second function...">>
LogWaitFinish   == <<"INFO", "Finished wait_half_second function.">>
LogFetchStart   == <<"INFO", "Starting call_demo_endpoint function. Fetching from: https://jsonplaceholder.typicode.com/posts/1">>
LogFetchSuccess == <<"INFO", "Successfully fetched data from demo endpoint.">>
LogHttpError    == <<"ERROR", "HTTP error occurred: %s - %s">>
LogNetError     == <<"ERROR", "Network error occurred: %s">>
LogJsonError    == <<"ERROR", "JSON decoding error: %s">>
LogUnexpected   == <<"CRITICAL", "An unexpected error occurred: %s">>
LogAppFinished  == <<"INFO", "Application finished.">>
LogShutdown     == <<"INFO", "OpenTelemetry provider shut down.">>

ErrorLines == {LogHttpError, LogNetError, LogJsonError, LogUnexpected}

----------------------------------------------------------------------------
(* The inputs: what the remote endpoint and the network can do *)

StatusCodes == {200, 201, 301, 404, 500}

\* A response body: not JSON at all, a JSON value that is no object, or an
\* object holding some of the keys the script reads.
Bodies ==
    {[valid |-> FALSE, obj |-> FALSE, keys |-> {}],
     [valid |-> TRUE,  obj |-> FALSE, keys |-> {}]}
    \cup {[valid |-> TRUE, obj |-> TRUE, keys |-> k] : k \in SUBSET {"id", "title"}}

NoBody == [valid |-> FALSE, obj |-> FALSE, keys |-> {}]

Outcomes ==
    {[kind |-> "response", status |-> s, body |-> b] : s \in StatusCodes, b \in Bodies}
    \cup {[kind |-> k, status |-> 0, body |-> NoBody] : k \in {"RequestError", "Exception"}}

NoResp == [kind |-> "none", status |-> 0, body |-> NoBody]

----------------------------------------------------------------------------
(* Spans, contexts and the span processor *)

NoSpan == [state |-> "none", parent |-> INVALID, status |-> "UNSET",
           attrs |-> {}, recording |-> FALSE]

\* tracer.start_span: the proxy tracer yields a recording span only once a
\* provider is installed; the parent is the caller's current span.
StartSpan(sp, name, parent) ==
    [sp EXCEPT ![name] = [state |-> "open", parent |-> parent, status |-> "UNSET",
                          attrs |-> {}, recording |-> provider.installed]]

\* start_as_current_span makes the new span current in the caller's
\* context; a span started by a no-op tracer is not made current.
AttachNothing(c, t, name) == c

Attach(c, t, name) ==
    IF provider.installed THEN [c EXCEPT ![t] = name] ELSE c

EndSpan(sp, name) ==
    IF sp[name].state = "open" THEN [sp EXCEPT ![name].state = "ended"] ELSE sp

\* BatchSpanProcessor.on_end: buffered unless the processor is shut down.
OnEnd(q, name) ==
    IF spans[name].recording /\ provider.processor /\ ~provider.shutdown
    THEN q \cup {name} ELSE q

\* Span.set_attribute: ignored on the invalid span and on an ended span.
SetAttribute(sp, target, key, value) ==
    IF target \in SpanNames /\ sp[target].state = "open" /\ sp[target].recording
    THEN [sp EXCEPT ![target].attrs = {a \in @ : a[1] # key} \cup {<<key, value>>}]
    ELSE sp

SetStatusError(sp, target) ==
    IF target \in SpanNames /\ sp[target].state = "open" /\ sp[target].recording
    THEN [sp EXCEPT ![target].status = "ERROR"]
    ELSE sp

\* trace.get_current_span() in task t, whose context is c[t].
GetCurrentSpanOfMain(c, t) == c["main"]

GetCurrentSpan(c, t) == c[t]

HasAttr(name, key) == \E a \in spans[name].attrs : a[1] = key

----------------------------------------------------------------------------
Init ==
    /\ pc = "import"
    /\ provider = [installed |-> FALSE, processor |-> FALSE, shutdown |-> FALSE]
    /\ instrumented = FALSE
    /\ task = [t \in Tasks |-> "none"]
    /\ ready = <<>>
    /\ ctx = [t \in Tasks |-> INVALID]
    /\ cur = [t \in {"wait", "fetch"} |-> INVALID]
    /\ spans = [n \in SpanNames |-> NoSpan]
    /\ queue = {}
    /\ exported = {}
    /\ getCount = 0
    /\ resp = NoResp
    /\ pending = "none"
    /\ handled = <<>>
    /\ log = <<>>
    /\ events = <<>>

----------------------------------------------------------------------------
(* Pure parts of call_demo_endpoint *)

\* Response.raise_for_status(): anything but a 2xx status raises.
IsSuccess(status) == status >= 200 /\ status <= 299

\* The exception leaving the try body (lines 78-88), or "none".
BodyException(r) ==
    IF r.kind # "response" THEN r.kind
    ELSE IF ~IsSuccess(r.status) THEN "HTTPStatusError"
    ELSE IF ~r.body.valid THEN "JSONDecodeError"
    ELSE IF ~r.body.obj THEN "AttributeError"
    ELSE "none"

\* Line 83 is reached once raise_for_status() and response.json() returned.
ReachedSuccessLog(r) ==
    r.kind = "response" /\ IsSuccess(r.status) /\ r.body.valid

\* Lines 86-88: http.status_code is set before post_data.get is first
\* called; a missing key gives None, which the span does not store.
BodyAttributes(sp, target, r) ==
    IF ~ReachedSuccessLog(r) THEN sp
    ELSE LET s1 == SetAttribute(sp, target, "http.status_code", r.status)
             s2 == IF r.body.obj /\ "id" \in r.body.keys
                   THEN SetAttribute(s1, target, "post.id", "id") ELSE s1
             s3 == IF r.body.obj /\ "title" \in r.body.keys
                   THEN SetAttribute(s2, target, "post.title", "title") ELSE s2
         IN s3

\* The except clause that catches an exception, in source order.
HandlerNoCatchAll(exc) ==
    CASE exc = "HTTPStatusError" -> "HTTPStatusError"
      [] exc = "RequestError"    -> "RequestError"
      [] exc = "JSONDecodeError" -> "JSONDecodeError"
      [] OTHER                   -> "uncaught"

Handler(exc) ==
    CASE exc = "HTTPStatusError" -> "HTTPStatusError"
      [] exc = "RequestError"    -> "RequestError"
      [] exc = "JSONDecodeError" -> "JSONDecodeError"
      [] OTHER                   -> "Exception"

HandlerLog(h) ==
    CASE h = "HTTPStatusError" -> LogHttpError
      [] h = "RequestError"    -> LogNetError
      [] h = "JSONDecodeError" -> LogJsonError
      [] OTHER                 -> LogUnexpected

\* The instrumented transport marks its span ERROR on a 4xx/5xx status and
\* on an exception.
HttpSpanFailed(r) == r.kind # "response" \/ r.status >= 400

----------------------------------------------------------------------------
(* The script: import, configure, run, shut down (lines 127-132) *)

\* Order of the statements of the __main__ block.
NextPcShutdownFirst(p) ==
    CASE p = "import"     -> "configure"
      [] p = "configure"  -> "instrument"
      [] p = "instrument" -> "shutdown"
      [] p = "shutdown"   -> "run"
      [] OTHER            -> "done"

NextPcRunFirst(p) ==
    CASE p = "import"     -> "run"
      [] p = "run"        -> "configure"
      [] p = "configure"  -> "instrument"
      [] p = "instrument" -> "shutdown"
      [] OTHER            -> "done"

NextPc(p) ==
    CASE p = "import"     -> "configure"
      [] p = "configure"  -> "instrument"
      [] p = "instrument" -> "run"
      [] p = "run"        -> "shutdown"
      [] OTHER            -> "done"

\* Lines 1-17, 51-126: the module body up to the __main__ block.  The tracer
\* is a proxy and the decorators only wrap the functions: no span starts.
Import ==
    /\ pc = "import"
    /\ pc' = NextPc(pc)
    /\ UNCHANGED <<provider, instrumented, task, ready, ctx, cur, spans, queue,
                   exported, getCount, resp, pending, handled, log, events>>

\* Lines 25-42: provider created, span processor added, provider installed.
ConfigureProvider ==
    /\ pc = "configure"
    /\ provider' = [provider EXCEPT !.installed = TRUE, !.processor = TRUE]
    /\ pc' = NextPc(pc)
    /\ UNCHANGED <<instrumented, task, ready, ctx, cur, spans, queue, exported,
                   getCount, resp, pending, handled, log, events>>

\* Lines 46-48: httpx instrumented, then the log line.
InstrumentHttpx ==
    /\ pc = "instrument"
    /\ instrumented' = TRUE
    /\ log' = Append(log, LogConfigured)
    /\ pc' = NextPc(pc)
    /\ UNCHANGED <<provider, task, ready, ctx, cur, spans, queue, exported,
                   getCount, resp, pending, handled, events>>

\* Line 129 entering main(), lines 115-123: the root span is started and
\* gather() creates the two tasks, each with a copy of main's context.
RunStart ==
    /\ pc = "run"
    /\ task["main"] = "none"
    /\ spans' = StartSpan(spans, MainSpan, ctx["main"])
    /\ LET c == Attach(ctx, "main", MainSpan)
       IN ctx' = [c EXCEPT !["wait"] = c["main"], !["fetch"] = c["main"]]
    /\ task' = [main |-> "gathering", wait |-> "created", fetch |-> "created"]
    /\ ready' = <<"wait", "fetch">>
    /\ log' = log \o <<LogAppStart, LogParallel>>
    /\ events' = Append(events, <<"start", MainSpan>>)
    /\ UNCHANGED <<pc, provider, instrumented, cur, queue, exported, getCount,
                   resp, pending, handled>>
----------------------------------------------------------------------------
(* The event loop: the two tasks (lines 53-108) and the join (line 120) *)

Finished(st) == st \in {"done", "raised", "cancelled"}

\* gather() without return_exceptions: its future completes when every
\* child has finished, or as soon as one child raises.
GatherFirstCompleted(tk) ==
    Finished(tk["wait"]) \/ Finished(tk["fetch"])

GatherDone(tk) ==
    \/ Finished(tk["wait"]) /\ Finished(tk["fetch"])
    \/ tk["wait"] = "raised"
    \/ tk["fetch"] = "raised"

\* The ready queue after the running task (its head) gave up control with
\* the tasks in state tk: main is woken once, when gather() completes.
Reschedule(tk) ==
    IF tk["main"] = "gathering" /\ GatherDone(tk) /\ "main" \notin {ready[i] : i \in 1..Len(ready)}
    THEN Append(Tail(ready), "main")
    ELSE Tail(ready)

Running(t) ==
    /\ pc = "run"
    /\ task["main"] = "gathering"
    /\ ready # <<>>
    /\ Head(ready) = t

\* Lines 53-62: the decorator opens the span in the task's own context,
\* the body runs up to the sleep.
WaitStart ==
    /\ Running("wait")
    /\ task["wait"] = "created"
    /\ LET s1 == StartSpan(spans, WaitSpan, ctx["wait"])
           c1 == Attach(ctx, "wait", WaitSpan)
           target == GetCurrentSpan(c1, "wait")
       IN /\ ctx' = c1
          /\ cur' = [cur EXCEPT !["wait"] = target]
          /\ spans' = SetAttribute(s1, target, "wait.duration.ms", WaitDurationMs)
    /\ log' = Append(log, LogWaitStart)
    /\ events' = Append(events, <<"start", WaitSpan>>)
    /\ task' = [task EXCEPT !["wait"] = "sleeping"]
    /\ ready' = Tail(ready)
    /\ UNCHANGED <<pc, provider, instrumented, queue, exported, getCount, resp,
                   pending, handled>>

\* The 0.5 s timer fires: the loop makes the task ready again.
SleepElapsed ==
    /\ pc = "run"
    /\ task["main"] = "gathering"
    /\ task["wait"] = "sleeping"
    /\ task' = [task EXCEPT !["wait"] = "woken"]
    /\ ready' = Append(ready, "wait")
    /\ UNCHANGED <<pc, provider, instrumented, ctx, cur, spans, queue, exported,
                   getCount, resp, pending, handled, log, events>>

\* Line 63, then the decorator closes the span.
WaitFinish ==
    /\ Running("wait")
    /\ task["wait"] = "woken"
    /\ log' = Append(log, LogWaitFinish)
    /\ spans' = EndSpan(spans, WaitSpan)
    /\ queue' = OnEnd(queue, WaitSpan)
    /\ events' = Append(events, <<"end", WaitSpan>>)
    /\ ctx' = [ctx EXCEPT !["wait"] = spans[WaitSpan].parent]
    /\ task' = [task EXCEPT !["wait"] = "done"]
    /\ ready' = Reschedule(task')
    /\ UNCHANGED <<pc, provider, instrumented, cur, exported, getCount, resp,
                   pending, handled>>
\* Lines 65-79: the decorator opens the span, the URL attribute is set on
\* the current span, the client is created and the GET is issued; the
\* instrumented transport opens its own span around the request.
FetchStart ==
    /\ Running("fetch")
    /\ task["fetch"] = "created"
    /\ LET s1 == StartSpan(spans, FetchSpan, ctx["fetch"])
           c1 == Attach(ctx, "fetch", FetchSpan)
           target == GetCurrentSpan(c1, "fetch")
           s2 == SetAttribute(s1, target, "http.target.url", Url)
       IN /\ cur' = [cur EXCEPT !["fetch"] = target]
          /\ IF instrumented
             THEN /\ spans' = StartSpan(s2, HttpSpan, c1["fetch"])
                  /\ ctx' = Attach(c1, "fetch", HttpSpan)
                  /\ events' = events \o <<<<"start", FetchSpan>>, <<"start", HttpSpan>>>>
             ELSE /\ spans' = s2
                  /\ ctx' = c1
                  /\ events' = Append(events, <<"start", FetchSpan>>)
    /\ log' = Append(log, LogFetchStart)
    /\ getCount' = getCount + 1
    /\ task' = [task EXCEPT !["fetch"] = "requesting"]
    /\ ready' = Tail(ready)
    /\ UNCHANGED <<pc, provider, instrumented, queue, exported, resp, pending,
                   handled>>

\* The network answers, or fails: client.get() is about to return or raise.
ResponseArrives ==
    /\ pc = "run"
    /\ task["main"] = "gathering"
    /\ task["fetch"] = "requesting"
    /\ \E o \in Outcomes : resp' = o
    /\ task' = [task EXCEPT !["fetch"] = "responded"]
    /\ ready' = Append(ready, "fetch")
    /\ UNCHANGED <<pc, provider, instrumented, ctx, cur, spans, queue, exported,
                   getCount, pending, handled, log, events>>

\* Lines 79-88: the transport's span ends, then the try body runs until it
\* completes or raises; either way the client is closed next (the exit of
\* the async with block, which awaits).
FetchResume ==
    /\ Running("fetch")
    /\ task["fetch"] = "responded"
    /\ LET s1 == IF HttpSpanFailed(resp) THEN SetStatusError(spans, HttpSpan) ELSE spans
           s2 == EndSpan(s1, HttpSpan)
       IN spans' = BodyAttributes(s2, cur["fetch"], resp)
    /\ IF spans[HttpSpan].state = "open"
       THEN /\ queue' = OnEnd(queue, HttpSpan)
            /\ events' = Append(events, <<"end", HttpSpan>>)
            /\ ctx' = [ctx EXCEPT !["fetch"] = spans[HttpSpan].parent]
       ELSE UNCHANGED <<queue, events, ctx>>
    /\ log' = IF ReachedSuccessLog(resp) THEN Append(log, LogFetchSuccess) ELSE log
    /\ pending' = BodyException(resp)
    /\ task' = [task EXCEPT !["fetch"] = "closing"]
    /\ ready' = Tail(ready)
    /\ UNCHANGED <<pc, provider, instrumented, cur, exported, getCount, resp,
                   handled>>

\* The client's connections are closed: the task is ready again.
ClientClosed ==
    /\ pc = "run"
    /\ task["main"] = "gathering"
    /\ task["fetch"] = "closing"
    /\ task' = [task EXCEPT !["fetch"] = "closed"]
    /\ ready' = Append(ready, "fetch")
    /\ UNCHANGED <<pc, provider, instrumented, ctx, cur, spans, queue, exported,
                   getCount, resp, pending, handled, log, events>>

\* Lines 90-108: the except clause matching the exception runs, if any; an
\* exception no clause catches leaves through the decorator, which marks
\* the span ERROR.  Then the decorator closes the span.
FetchFinishBody ==
    /\ Running("fetch")
    /\ task["fetch"] = "closed"
    /\ LET h == IF pending = "none" THEN "none" ELSE Handler(pending)
           s1 == CASE h = "none"     -> spans
                   [] h = "uncaught" -> SetStatusError(spans, FetchSpan)
                   [] OTHER          -> SetStatusError(spans, cur["fetch"])
       IN /\ spans' = EndSpan(s1, FetchSpan)
          /\ log' = IF h \in {"none", "uncaught"} THEN log ELSE Append(log, HandlerLog(h))
          /\ handled' = IF h \in {"none", "uncaught"} THEN handled ELSE Append(handled, h)
          /\ task' = [task EXCEPT !["fetch"] = IF h = "uncaught" THEN "raised" ELSE "done"]
    /\ pending' = "none"
    /\ queue' = OnEnd(queue, FetchSpan)
    /\ events' = Append(events, <<"end", FetchSpan>>)
    /\ ctx' = [ctx EXCEPT !["fetch"] = spans[FetchSpan].parent]
    /\ ready' = Reschedule(task')
    /\ UNCHANGED <<pc, provider, instrumented, cur, exported, resp>>

\* A variant that issues the request once more after a failure.
FetchFinishRetry ==
    /\ FetchFinishBody
    /\ getCount' = IF pending = "none" THEN getCount ELSE getCount + 1

\* No except clause issues another request.
FetchFinish ==
    /\ FetchFinishBody
    /\ UNCHANGED getCount

\* Lines 120-125: gather() returns or raises in main().  On a return the
\* attribute is set, the root span ends and the last line is logged; on an
\* exception the with block marks the root span ERROR and main() raises.
MainJoin ==
    /\ Running("main")
    /\ LET failed == "raised" \in {task["wait"], task["fetch"]}
           s1 == IF failed THEN SetStatusError(spans, MainSpan)
                 ELSE SetAttribute(spans, ctx["main"], "app.status", AppStatus)
       IN /\ spans' = EndSpan(s1, MainSpan)
          /\ log' = IF failed THEN log ELSE Append(log, LogAppFinished)
          /\ task' = [task EXCEPT !["main"] = IF failed THEN "raised" ELSE "done"]
    /\ queue' = OnEnd(queue, MainSpan)
    /\ events' = Append(events, <<"end", MainSpan>>)
    /\ ctx' = [ctx EXCEPT !["main"] = spans[MainSpan].parent]
    /\ ready' = Tail(ready)
    /\ UNCHANGED <<pc, provider, instrumented, cur, exported, getCount, resp,
                   pending, handled>>

\* Spans still open in tasks that asyncio.run() cancels when main() is over.
Orphans == {n \in {WaitSpan, FetchSpan, HttpSpan} : spans[n].state = "open"}

RECURSIVE EndEvents(_)
EndEvents(S) ==
    IF S = {} THEN <<>>
    ELSE LET n == CHOOSE x \in S : TRUE
         IN <<<<"end", n>>>> \o EndEvents(S \ {n})

\* Line 129 returning: asyncio.run() cancels what is still pending, closes
\* the loop and returns main()'s result or raises its exception.
AsyncioRunReturn ==
    /\ pc = "run"
    /\ task["main"] \in {"done", "raised"}
    /\ task' = [t \in Tasks |-> IF Finished(task[t]) THEN task[t] ELSE "cancelled"]
    /\ spans' = [n \in SpanNames |-> IF n \in Orphans THEN [spans[n] EXCEPT !.state = "ended"]
                                     ELSE spans[n]]
    /\ queue' = queue \cup {n \in Orphans : OnEnd({}, n) # {}}
    /\ events' = events \o EndEvents(Orphans)
    /\ ready' = <<>>
    /\ pc' = IF task["main"] = "raised" THEN "crashed" ELSE NextPc(pc)
    /\ UNCHANGED <<provider, instrumented, ctx, cur, exported, getCount, resp,
                   pending, handled, log>>

\* Lines 131-132: the provider is shut down, which flushes the processor.
ProviderShutdown ==
    /\ pc = "shutdown"
    /\ provider' = [provider EXCEPT !.shutdown = TRUE]
    /\ exported' = exported \cup queue
    /\ queue' = {}
    /\ events' = Append(events, <<"shutdown", "provider">>)
    /\ log' = Append(log, LogShutdown)
    /\ pc' = NextPc(pc)
    /\ UNCHANGED <<instrumented, task, ready, ctx, cur, spans, getCount, resp,
                   pending, handled>>

\* Line 38: the processor's worker thread exports what is buffered, at any
\* time of its own choosing.
BatchExport ==
    /\ queue # {}
    /\ ~provider.shutdown
    /\ exported' = exported \cup queue
    /\ queue' = {}
    /\ UNCHANGED <<pc, provider, instrumented, task, ready, ctx, cur, spans,
                   getCount, resp, pending, handled, log, events>>

----------------------------------------------------------------------------
Next ==
    \/ Import
    \/ ConfigureProvider
    \/ InstrumentHttpx
    \/ RunStart
    \/ WaitStart
    \/ SleepElapsed
    \/ WaitFinish
    \/ FetchStart
    \/ ResponseArrives
    \/ FetchResume
    \/ ClientClosed
    \/ FetchFinish
    \/ MainJoin
    \/ AsyncioRunReturn
    \/ ProviderShutdown
    \/ BatchExport

Spec == Init /\ [][Next]_vars

\* The loop runs every ready task, timers fire, the network answers or
\* fails, and the script's statements execute.
FairSpec == Spec /\ WF_vars(Next)
----------------------------------------------------------------------------
(* Helpers for stating the properties *)

Occurs(seq, e) == \E i \in 1..Len(seq) : seq[i] = e
Pos(seq, e) == CHOOSE i \in 1..Len(seq) : seq[i] = e
Before(seq, a, b) == Occurs(seq, a) /\ Occurs(seq, b) /\ Pos(seq, a) < Pos(seq, b)
Count(seq, S) == Cardinality({i \in 1..Len(seq) : seq[i] \in S})
Started(n) == spans[n].state # "none"
Ended(n) == spans[n].state = "ended"
Configured == provider.installed /\ provider.processor /\ instrumented
FetchFailed(r) ==
    \/ r.kind # "response"
    \/ r.status < 200 \/ r.status > 299
    \/ ~r.body.valid
    \/ ~r.body.obj
FetchKeys == {"http.target.url", "http.status_code", "post.id", "post.title"}

----------------------------------------------------------------------------
\* C1: no span (root, wait, fetch or the HTTP client span) is started before
\* configure_opentelemetry() has installed the provider with its span
\* processor and instrumented the HTTP client; every span that starts is a
\* recording span of that provider.
C1_ConfigureBeforeUse ==
    \A n \in SpanNames : Started(n) => Configured /\ spans[n].recording

C1_Witness ==
    /\ \A n \in SpanNames : Started(n)
    /\ Configured

\* C2: the provider is shut down only after main() has returned: at and
\* after the shutdown no span is open, the shutdown is the last span event,
\* and every span started during the run has been handed to the exporter.
C2_ShutdownAfterAllSpansEnded ==
    provider.shutdown =>
        /\ task["main"] = "done"
        /\ \A n \in SpanNames : spans[n].state # "open"
        /\ \A n \in SpanNames : Started(n) => n \in exported
        /\ queue = {}
        /\ events[Len(events)] = <<"shutdown", "provider">>

C2_Witness ==
    /\ provider.shutdown
    /\ \A n \in SpanNames : Ended(n) /\ n \in exported

C4_JoinAfterBoth ==
    /\ Started(WaitSpan) \/ Started(FetchSpan) => Started(MainSpan)
    /\ task["wait"] # "none" \/ task["fetch"] # "none" => Started(MainSpan)
    /\ (HasAttr(MainSpan, "app.status") \/ Ended(MainSpan) \/ Occurs(log, LogAppFinished)) =>
          /\ task["wait"] = "done" /\ task["fetch"] = "done"
          /\ Ended(WaitSpan) /\ Ended(FetchSpan)
          /\ Before(events, <<"end", WaitSpan>>, <<"end", MainSpan>>)
          /\ Before(events, <<"end", FetchSpan>>, <<"end", MainSpan>>)
    /\ task["main"] = "done" =>
          /\ <<"app.status", AppStatus>> \in spans[MainSpan].attrs
          /\ Before(log, LogWaitFinish, LogAppFinished)

C4_Witness ==
    /\ <<"app.status", AppStatus>> \in spans[MainSpan].attrs
    /\ Occurs(log, LogAppFinished)
    /\ Before(events, <<"end", FetchSpan>>, <<"end", WaitSpan>>)
\* C5: whatever makes the fetch fail (an error status, a request error,
\* invalid JSON, any other Exception) exactly one except clause runs, the
\* one matching the failure; it logs exactly one ERROR or CRITICAL line and
\* the fetch span's status is ERROR; the exception never reaches gather()
\* or main().
C5_ExceptionsCaughtAndLogged ==
    /\ Len(handled) <= 1
    /\ Count(log, ErrorLines) = Len(handled)
    /\ task["fetch"] # "raised" /\ task["main"] # "raised" /\ pc # "crashed"
    /\ spans[MainSpan].status = "UNSET"
    /\ (task["fetch"] = "done" /\ FetchFailed(resp)) =>
          /\ Len(handled) = 1
          /\ spans[FetchSpan].status = "ERROR"
          /\ resp.kind = "RequestError" => handled = <<"RequestError">> /\ Occurs(log, LogNetError)
          /\ resp.kind = "Exception" => handled = <<"Exception">> /\ Occurs(log, LogUnexpected)
          /\ (resp.kind = "response" /\ (resp.status < 200 \/ resp.status > 299)) =>
                handled = <<"HTTPStatusError">> /\ Occurs(log, LogHttpError)
          /\ (resp.kind = "response" /\ resp.status \in 200..299 /\ ~resp.body.valid) =>
                handled = <<"JSONDecodeError">> /\ Occurs(log, LogJsonError)
          /\ (resp.kind = "response" /\ resp.status \in 200..299 /\ resp.body.valid) =>
                handled = <<"Exception">> /\ Occurs(log, LogUnexpected)
    /\ (task["fetch"] = "done" /\ ~FetchFailed(resp)) =>
          handled = <<>> /\ spans[FetchSpan].status = "UNSET"

C5_Witness ==
    /\ task["fetch"] = "done"
    /\ resp.kind = "response" /\ resp.status = 200 /\ resp.body.valid /\ ~resp.body.obj
    /\ handled = <<"Exception">>
    /\ spans[FetchSpan].status = "ERROR"

\* C6: under fair scheduling every run reaches the provider shutdown and
\* its log line "OpenTelemetry provider shut down.", whatever the outcome
\* of the fetch.
C6_RunReachesShutdown ==
    <>(pc = "done" /\ provider.shutdown /\ log[Len(log)] = LogShutdown)

C6_Witness ==
    /\ pc = "done"
    /\ provider.shutdown
    /\ log[Len(log)] = LogShutdown
    /\ FetchFailed(resp)

\* C7: each task's body runs inside its own span and get_current_span()
\* gives each task its own span under every interleaving: wait.duration.ms
\* is set on the wait span only; http.target.url, http.status_code, post.id,
\* post.title and the ERROR status are set on the fetch span only, never on
\* the other task's span or on the root span.
C7_EachTaskSeesOwnSpan ==
    /\ task["wait"] \in {"sleeping", "woken"} =>
          spans[WaitSpan].state = "open" /\ ctx["wait"] = WaitSpan
    /\ task["fetch"] \in {"requesting", "responded", "closing", "closed"} =>
          spans[FetchSpan].state = "open" /\ ctx["fetch"] \in {FetchSpan, HttpSpan}
    /\ Occurs(log, LogWaitStart) => Started(WaitSpan)
    /\ Ended(WaitSpan) => Occurs(log, LogWaitFinish)
    /\ Occurs(log, LogFetchStart) => Started(FetchSpan)
    /\ Started(WaitSpan) => cur["wait"] = WaitSpan
    /\ Started(FetchSpan) => cur["fetch"] = FetchSpan
    /\ Started(WaitSpan) => <<"wait.duration.ms", WaitDurationMs>> \in spans[WaitSpan].attrs
    /\ Started(FetchSpan) => <<"http.target.url", Url>> \in spans[FetchSpan].attrs
    /\ \A n \in SpanNames \ {WaitSpan} : ~HasAttr(n, "wait.duration.ms")
    /\ \A n \in SpanNames \ {FetchSpan} : \A k \in FetchKeys : ~HasAttr(n, k)
    /\ spans[WaitSpan].status = "UNSET"
    /\ spans[MainSpan].status = "UNSET"

C7_Witness ==
    /\ task["wait"] = "sleeping"
    /\ task["fetch"] = "done"
    /\ spans[FetchSpan].status = "ERROR"
    /\ HasAttr(FetchSpan, "http.status_code")
    /\ HasAttr(WaitSpan, "wait.duration.ms")

\* The parent each span is meant to have.
Parent(n) == IF n = HttpSpan THEN FetchSpan ELSE MainSpan

\* C8: the span tree is well nested.  The root span has no parent; the wait
\* and fetch spans are its children, start after it and end before it; the
\* HTTP client span is a child of the fetch span and starts and ends within
\* it; an open span always has its parent open.
C8_SpanTreeWellNested ==
    /\ Started(MainSpan) => spans[MainSpan].parent = INVALID
    /\ \A n \in SpanNames \ {MainSpan} :
          /\ Started(n) =>
                /\ spans[n].parent = Parent(n)
                /\ Before(events, <<"start", Parent(n)>>, <<"start", n>>)
          /\ spans[n].state = "open" => spans[Parent(n)].state = "open"
          /\ Ended(Parent(n)) =>
                /\ Ended(n)
                /\ Before(events, <<"end", n>>, <<"end", Parent(n)>>)

C8_Witness ==
    /\ \A n \in SpanNames : Ended(n)
    /\ spans[HttpSpan].parent = FetchSpan
    /\ Before(events, <<"end", HttpSpan>>, <<"end", FetchSpan>>)
    /\ Before(events, <<"end", WaitSpan>>, <<"end", FetchSpan>>)

\* C9: the two tasks are independent.  A failing fetch never cancels or
\* shortens the wait: once main() is over the wait has logged its last line
\* after its sleep elapsed, its span ended without ERROR, and the root span
\* carries app.status and no ERROR.  Conversely the fetch's result is
\* decided by the response alone, whether or not the wait has finished.
C9_TasksIndependent ==
    /\ task["wait"] # "cancelled" /\ task["fetch"] # "cancelled"
    /\ spans[WaitSpan].status = "UNSET"
    /\ Occurs(log, LogWaitFinish) <=> task["wait"] = "done"
    /\ Finished(task["main"]) \/ pc \in {"shutdown", "done", "crashed"} =>
          /\ task["wait"] = "done"
          /\ Occurs(log, LogWaitFinish)
          /\ Ended(WaitSpan)
          /\ <<"app.status", AppStatus>> \in spans[MainSpan].attrs
          /\ spans[MainSpan].status = "UNSET"
          /\ Ended(MainSpan)
    /\ Finished(task["fetch"]) =>
          /\ task["fetch"] = "done"
          /\ spans[FetchSpan].status = IF FetchFailed(resp) THEN "ERROR" ELSE "UNSET"

C9_Witness ==
    /\ pc = "done"
    /\ FetchFailed(resp)
    /\ \E i, j \in 1..Len(log) : i < j /\ log[i] \in ErrorLines /\ log[j] = LogWaitFinish
    /\ <<"app.status", AppStatus>> \in spans[MainSpan].attrs

\* The two outcomes of call_demo_endpoint.
FetchSucceeded ==
    /\ Occurs(log, LogFetchSuccess)
    /\ \A k \in {"http.status_code", "post.id", "post.title"} : HasAttr(FetchSpan, k)
    /\ spans[FetchSpan].status # "ERROR"
    /\ Count(log, ErrorLines) = 0

FetchFailedCleanly ==
    /\ Count(log, ErrorLines) = 1
    /\ spans[FetchSpan].status = "ERROR"
    /\ ~Occurs(log, LogFetchSuccess)
    /\ \A k \in {"http.status_code", "post.id", "post.title"} : ~HasAttr(FetchSpan, k)

\* C10: success and failure of the fetch exclude each other.  When
\* call_demo_endpoint finishes, either the success line was logged,
\* http.status_code, post.id and post.title were set and the status is not
\* ERROR, or exactly one error line was logged, the status is ERROR, the
\* success line was not logged and none of the three attributes was set.
C10_SuccessXorFailure ==
    task["fetch"] = "done" => FetchSucceeded \/ FetchFailedCleanly
====
